---- MODULE Spec2Model ----
(***************************************************************************)
(* Model of the view-state controller of frontend/src/App.js: the React    *)
(* state hooks of App, its event handlers, and the continuations of the    *)
(* asynchronous backend calls they start.  One action is one run of an     *)
(* event handler up to its first await, or one continuation after an       *)
(* await (the JavaScript event loop runs each of them to completion).      *)
(* activeTab is left out: switching tabs changes no other state and every  *)
(* tab can always be selected, so it only hides or shows the controls.     *)
(***************************************************************************)
EXTENDS Integers, Sequences, FiniteSets, TLC

\* ---------------------------------------------------------------- bounds
MaxSends  == 2       \* POST /chat calls issued in one session
MaxSaves  == 2       \* POST /routine calls issued in one session

\* ------------------------------------------------------------ input sets
Null == "null"
\* texts of the message input: empty, blank, plain, and padded with blanks
Messages == {<<>>, <<" ">>, <<"a">>, <<" ", "a", " ">>}
Suggestion == <<"a">>                 \* a quick-suggestion text (non-blank)
FieldValues == {"", "8"}              \* text of a routine form field
RoutineFields == {"sleep_hours", "water_glasses", "exercise_minutes", "mood"}
OldEntry == [message |-> <<"a">>, response |-> 0]
HistoryResponses == {<<>>, <<OldEntry>>}   \* bodies of GET /chat/history
WeatherResponses == {"sunny"}              \* bodies of GET /weather
NewsResponses == {<<>>, <<"n1">>}          \* the news field of GET /news

\* ------------------------------------------------------------- the state
VARIABLES
    message,          \* useState('')
    chatHistory,      \* useState([]), newest first
    isLoading,        \* useState(false)
    isListening,      \* useState(false)
    weather,          \* useState(null)
    news,             \* useState([])
    routine,          \* useState({sleep_hours:'', ...})
    recognitionRef,   \* useRef(null): Null or the recognition object
    recState,         \* state of the platform recogniser
    lastRecCall,      \* last method called on the recognition object
    weatherReq,       \* promise of loadWeather's GET
    newsReq,          \* promise of loadNews's GET
    historyReq,       \* promise of loadChatHistory's GET
    chatInFlight,     \* unresolved POST /chat calls
    chatPosts,        \* number of POST /chat calls issued so far
    routineInFlight,  \* unresolved POST /routine calls
    routinePosts,     \* number of POST /routine calls issued so far
    toast,            \* notification the last step raised through sonner
    log,              \* console.error line the last step wrote
    uncaught,         \* exceptions that escaped a handler
    lastOp            \* the handler or continuation that ran last

vars == <<message, chatHistory, isLoading, isListening, weather, news, routine,
          recognitionRef, recState, lastRecCall, weatherReq, newsReq,
          historyReq, chatInFlight, chatPosts, routineInFlight, routinePosts,
          toast, log, uncaught, lastOp>>

chatVars    == <<message, chatHistory, isLoading, chatInFlight, chatPosts>>
voiceVars   == <<isListening, recState, lastRecCall>>
routineVars == <<routine, routineInFlight, routinePosts>>
loaderVars  == <<weather, news, weatherReq, newsReq, historyReq>>

EmptyRoutine ==
    [sleep_hours |-> "", water_glasses |-> "", exercise_minutes |-> "", mood |-> ""]

\* String.prototype.trim on the message text
RECURSIVE TrimLeft(_)
TrimLeft(s) ==
    IF s = <<>> THEN s
    ELSE IF Head(s) = " " THEN TrimLeft(Tail(s)) ELSE s

RECURSIVE TrimRight(_)
TrimRight(s) ==
    IF s = <<>> THEN s
    ELSE IF s[Len(s)] = " " THEN TrimRight(SubSeq(s, 1, Len(s) - 1)) ELSE s

trim(s) == TrimRight(TrimLeft(s))

\* what one step leaves behind: its name, the notification it raised and the
\* console.error line it wrote ("none" when it raised or wrote nothing)
Emit(op, t, l) ==
    /\ lastOp' = op
    /\ toast' = t
    /\ log' = l

Init ==
    /\ message = <<>>
    /\ chatHistory = <<>>
    /\ isLoading = FALSE
    /\ isListening = FALSE
    /\ weather = Null
    /\ news = <<>>
    /\ routine = EmptyRoutine
    /\ recognitionRef \in {Null, "recognition"}
    /\ recState = "idle"
    /\ lastRecCall = "none"
    /\ weatherReq = "pending"
    /\ newsReq = "pending"
    /\ historyReq = "pending"
    /\ chatInFlight = {}
    /\ chatPosts = 0
    /\ routineInFlight = {}
    /\ routinePosts = 0
    /\ toast = "none"
    /\ log = "none"
    /\ uncaught = {}
    /\ lastOp = "mount"

\* ------------------------------------------------------------- chat flow
\* onChange of the message input
TypeMessage ==
    \E v \in Messages :
        /\ message' = v
        /\ Emit("typeMessage", "none", "none")
        /\ UNCHANGED <<chatHistory, isLoading, chatInFlight, chatPosts,
                       voiceVars, routineVars, loaderVars, recognitionRef,
                       uncaught>>

\* the quick-suggestion and quick-action buttons
ClickSuggestion ==
    /\ message' = Suggestion
    /\ Emit("suggestion", "none", "none")
    /\ UNCHANGED <<chatHistory, isLoading, chatInFlight, chatPosts,
                   voiceVars, routineVars, loaderVars, recognitionRef,
                   uncaught>>

\* handleSendMessage testing the text without trimming it
handleSendMessageNoTrim ==
    IF message = <<>>
    THEN /\ Emit("sendBlank", "none", "none")
         /\ UNCHANGED <<chatVars, voiceVars, routineVars, loaderVars,
                        recognitionRef, uncaught>>
    ELSE /\ chatPosts < MaxSends
         /\ message' = <<>>
         /\ isLoading' = TRUE
         /\ chatPosts' = chatPosts + 1
         /\ chatInFlight' = chatInFlight \cup
                {[id |-> chatPosts + 1, message |-> message]}
         /\ Emit("send", "none", "none")
         /\ UNCHANGED <<chatHistory, voiceVars, routineVars, loaderVars,
                        recognitionRef, uncaught>>

handleSendMessage ==
    IF trim(message) = <<>>
    THEN /\ Emit("sendBlank", "none", "none")
         /\ UNCHANGED <<chatVars, voiceVars, routineVars, loaderVars,
                        recognitionRef, uncaught>>
    ELSE /\ chatPosts < MaxSends
         /\ message' = <<>>
         /\ isLoading' = TRUE
         /\ chatPosts' = chatPosts + 1
         /\ chatInFlight' = chatInFlight \cup
                {[id |-> chatPosts + 1, message |-> message]}
         /\ Emit("send", "none", "none")
         /\ UNCHANGED <<chatHistory, voiceVars, routineVars, loaderVars,
                        recognitionRef, uncaught>>

\* the Send button, disabled={!message.trim() || isLoading}
ClickSend ==
    /\ trim(message) # <<>>
    /\ ~isLoading
    /\ handleSendMessage

\* onKeyPress of the message input with key Enter
PressEnter == handleSendMessage

\* ChatOk appending the entry instead of prepending it
ChatOkAppends ==
    \E req \in chatInFlight :
        /\ chatInFlight' = chatInFlight \ {req}
        /\ chatHistory' =
              chatHistory \o <<[message |-> req.message, response |-> req.id]>>
        /\ isLoading' = FALSE
        /\ Emit("chatOk", "Got your recommendation!", "none")
        /\ UNCHANGED <<message, chatPosts, voiceVars, routineVars, loaderVars,
                       recognitionRef, uncaught>>

\* POST /chat resolved: the continuation after the await, then finally
ChatOk ==
    \E req \in chatInFlight :
        /\ chatInFlight' = chatInFlight \ {req}
        /\ chatHistory' =
              <<[message |-> req.message, response |-> req.id]>> \o chatHistory
        /\ isLoading' = FALSE
        /\ Emit("chatOk", "Got your recommendation!", "none")
        /\ UNCHANGED <<message, chatPosts, voiceVars, routineVars, loaderVars,
                       recognitionRef, uncaught>>

\* ChatFail showing the failure as an entry of the history
ChatFailAddsEntry ==
    \E req \in chatInFlight :
        /\ chatInFlight' = chatInFlight \ {req}
        /\ chatHistory' =
              <<[message |-> req.message, response |-> -1]>> \o chatHistory
        /\ isLoading' = FALSE
        /\ Emit("chatFail", "Failed to get recommendation. Please try again.",
                "Chat error:")
        /\ UNCHANGED <<message, chatPosts, voiceVars, routineVars,
                       loaderVars, recognitionRef, uncaught>>

\* POST /chat rejected: catch, then finally
ChatFail ==
    \E req \in chatInFlight :
        /\ chatInFlight' = chatInFlight \ {req}
        /\ isLoading' = FALSE
        /\ Emit("chatFail", "Failed to get recommendation. Please try again.",
                "Chat error:")
        /\ UNCHANGED <<message, chatHistory, chatPosts, voiceVars, routineVars,
                       loaderVars, recognitionRef, uncaught>>

\* ------------------------------------------------------------ voice input
\* handleVoiceInput without the test of recognitionRef.current
handleVoiceInputUnchecked ==
    IF isListening
    THEN /\ lastRecCall' = "stop"
         /\ recState' = IF recState = "active" THEN "stopping" ELSE recState
         /\ isListening' = FALSE
         /\ Emit("voiceStop", "none", "none")
         /\ UNCHANGED <<chatVars, routineVars, loaderVars, recognitionRef,
                        uncaught>>
    ELSE IF recState = "idle"
    THEN /\ lastRecCall' = "start"
         /\ recState' = "active"
         /\ isListening' = TRUE
         /\ Emit("voiceStart", "Listening... Speak now!", "none")
         /\ UNCHANGED <<chatVars, routineVars, loaderVars, recognitionRef,
                        uncaught>>
    ELSE /\ lastRecCall' = "start"
         /\ uncaught' = uncaught \cup {"InvalidStateError"}
         /\ Emit("voiceStartThrew", "none", "none")
         /\ UNCHANGED <<chatVars, isListening, recState, routineVars,
                        loaderVars, recognitionRef>>

handleVoiceInput ==
    IF recognitionRef = Null
    THEN /\ Emit("voiceUnsupported",
                 "Voice recognition not supported in this browser.", "none")
         /\ UNCHANGED <<chatVars, voiceVars, routineVars, loaderVars,
                        recognitionRef, uncaught>>
    ELSE IF isListening
    THEN \* recognition.stop(); setIsListening(false)
         /\ lastRecCall' = "stop"
         /\ recState' = IF recState = "active" THEN "stopping" ELSE recState
         /\ isListening' = FALSE
         /\ Emit("voiceStop", "none", "none")
         /\ UNCHANGED <<chatVars, routineVars, loaderVars, recognitionRef,
                        uncaught>>
    ELSE IF recState = "idle"
    THEN \* recognition.start(); setIsListening(true); toast.info
         /\ lastRecCall' = "start"
         /\ recState' = "active"
         /\ isListening' = TRUE
         /\ Emit("voiceStart", "Listening... Speak now!", "none")
         /\ UNCHANGED <<chatVars, routineVars, loaderVars, recognitionRef,
                        uncaught>>
    ELSE \* start() on a recogniser that has not ended throws
         /\ lastRecCall' = "start"
         /\ uncaught' = uncaught \cup {"InvalidStateError"}
         /\ Emit("voiceStartThrew", "none", "none")
         /\ UNCHANGED <<chatVars, isListening, recState, routineVars,
                        loaderVars, recognitionRef>>

\* the microphone button
ClickVoice == handleVoiceInput

\* RecResult without setIsListening(false)
RecResultKeepsListening ==
    /\ recognitionRef # Null
    /\ recState \in {"active", "stopping"}
    /\ \E transcript \in Messages \ {<<>>} : message' = transcript
    /\ recState' = "ending"
    /\ Emit("recResult", "none", "none")
    /\ UNCHANGED <<chatHistory, isLoading, chatInFlight, chatPosts, isListening,
                   lastRecCall, routineVars, loaderVars, recognitionRef,
                   uncaught>>

\* recognition.onresult
RecResult ==
    /\ recognitionRef # Null
    /\ recState \in {"active", "stopping"}
    /\ \E transcript \in Messages \ {<<>>} : message' = transcript
    /\ isListening' = FALSE
    /\ recState' = "ending"
    /\ Emit("recResult", "none", "none")
    /\ UNCHANGED <<chatHistory, isLoading, chatInFlight, chatPosts, lastRecCall,
                   routineVars, loaderVars, recognitionRef, uncaught>>

\* recognition.onerror
RecError ==
    /\ recognitionRef # Null
    /\ recState \in {"active", "stopping"}
    /\ isListening' = FALSE
    /\ recState' = "ending"
    /\ Emit("recError", "Voice recognition error. Please try again.", "none")
    /\ UNCHANGED <<chatVars, lastRecCall, routineVars, loaderVars,
                   recognitionRef, uncaught>>

\* recognition.onend
RecEnd ==
    /\ recognitionRef # Null
    /\ recState # "idle"
    /\ isListening' = FALSE
    /\ recState' = "idle"
    /\ Emit("recEnd", "none", "none")
    /\ UNCHANGED <<chatVars, lastRecCall, routineVars, loaderVars,
                   recognitionRef, uncaught>>

\* ----------------------------------------------------------- routine save
\* onChange of one of the four routine form controls
EditRoutine ==
    \E f \in RoutineFields, v \in FieldValues :
        /\ routine' = [routine EXCEPT ![f] = v]
        /\ Emit("editRoutine", "none", "none")
        /\ UNCHANGED <<chatVars, voiceVars, routineInFlight, routinePosts,
                       loaderVars, recognitionRef, uncaught>>

handleRoutineSave ==
    /\ routinePosts < MaxSaves
    /\ routinePosts' = routinePosts + 1
    /\ routineInFlight' = routineInFlight \cup
           {[id |-> routinePosts + 1, body |-> routine]}
    /\ Emit("saveRoutine", "none", "none")
    /\ UNCHANGED <<chatVars, voiceVars, routine, loaderVars, recognitionRef,
                   uncaught>>

\* the Save Today's Routine button (never disabled)
ClickSaveRoutine == handleRoutineSave

\* POST /routine resolved
RoutineOk ==
    \E req \in routineInFlight :
        /\ routineInFlight' = routineInFlight \ {req}
        /\ routine' = EmptyRoutine
        /\ Emit("routineOk", "Routine saved successfully!", "none")
        /\ UNCHANGED <<chatVars, voiceVars, routinePosts, loaderVars,
                       recognitionRef, uncaught>>

\* RoutineFail with the form reset moved after the try block
RoutineFailResets ==
    \E req \in routineInFlight :
        /\ routineInFlight' = routineInFlight \ {req}
        /\ routine' = EmptyRoutine
        /\ Emit("routineFail", "Failed to save routine.", "Routine save error:")
        /\ UNCHANGED <<chatVars, voiceVars, routinePosts, loaderVars,
                       recognitionRef, uncaught>>

\* POST /routine rejected
RoutineFail ==
    \E req \in routineInFlight :
        /\ routineInFlight' = routineInFlight \ {req}
        /\ Emit("routineFail", "Failed to save routine.", "Routine save error:")
        /\ UNCHANGED <<chatVars, voiceVars, routine, routinePosts, loaderVars,
                       recognitionRef, uncaught>>

\* ---------------------------------------------------------------- loaders
\* loadWeather: GET /weather resolved
WeatherOk ==
    /\ weatherReq = "pending"
    /\ \E data \in WeatherResponses : weather' = data
    /\ weatherReq' = "done"
    /\ Emit("weatherOk", "none", "none")
    /\ UNCHANGED <<chatVars, voiceVars, routineVars, news, newsReq, historyReq,
                   recognitionRef, uncaught>>

\* WeatherFail without the try/catch: the rejection leaves loadWeather
WeatherFailUncaught ==
    /\ weatherReq = "pending"
    /\ weatherReq' = "failed"
    /\ uncaught' = uncaught \cup {"UnhandledRejection"}
    /\ Emit("weatherFail", "none", "none")
    /\ UNCHANGED <<chatVars, voiceVars, routineVars, weather, news, newsReq,
                   historyReq, recognitionRef>>

\* loadWeather: GET /weather rejected
WeatherFail ==
    /\ weatherReq = "pending"
    /\ weatherReq' = "failed"
    /\ Emit("weatherFail", "none", "Weather loading error:")
    /\ UNCHANGED <<chatVars, voiceVars, routineVars, weather, news, newsReq,
                   historyReq, recognitionRef, uncaught>>

\* loadNews: GET /news resolved
NewsOk ==
    /\ newsReq = "pending"
    /\ \E data \in NewsResponses : news' = data
    /\ newsReq' = "done"
    /\ Emit("newsOk", "none", "none")
    /\ UNCHANGED <<chatVars, voiceVars, routineVars, weather, weatherReq,
                   historyReq, recognitionRef, uncaught>>

\* NewsFail with an empty catch block
NewsFailUnlogged ==
    /\ newsReq = "pending"
    /\ newsReq' = "failed"
    /\ Emit("newsFail", "none", "none")
    /\ UNCHANGED <<chatVars, voiceVars, routineVars, weather, news, weatherReq,
                   historyReq, recognitionRef, uncaught>>

\* loadNews: GET /news rejected
NewsFail ==
    /\ newsReq = "pending"
    /\ newsReq' = "failed"
    /\ Emit("newsFail", "none", "News loading error:")
    /\ UNCHANGED <<chatVars, voiceVars, routineVars, weather, news, weatherReq,
                   historyReq, recognitionRef, uncaught>>

\* loadChatHistory: GET /chat/history/default_user resolved
HistoryOk ==
    /\ historyReq = "pending"
    /\ \E data \in HistoryResponses : chatHistory' = data
    /\ historyReq' = "done"
    /\ Emit("historyOk", "none", "none")
    /\ UNCHANGED <<message, isLoading, chatInFlight, chatPosts, voiceVars,
                   routineVars, weather, news, weatherReq, newsReq,
                   recognitionRef, uncaught>>

\* loadChatHistory: GET /chat/history/default_user rejected
HistoryFail ==
    /\ historyReq = "pending"
    /\ historyReq' = "failed"
    /\ Emit("historyFail", "none", "Chat history loading error:")
    /\ UNCHANGED <<chatVars, voiceVars, routineVars, weather, news, weatherReq,
                   newsReq, recognitionRef, uncaught>>

\* --------------------------------------------------------- specifications
\* The whole application.  Its parts share the message text only (the
\* recogniser writes it, the chat flow reads it) and chatHistory (the history
\* loader and the chat flow write it); the specifications below each run a
\* group of controls that share state, the rest of the page left untouched.
Next ==
    \/ TypeMessage
    \/ ClickSuggestion
    \/ ClickSend
    \/ PressEnter
    \/ ChatOk
    \/ ChatFail
    \/ ClickVoice
    \/ RecResult
    \/ RecError
    \/ RecEnd
    \/ EditRoutine
    \/ ClickSaveRoutine
    \/ RoutineOk
    \/ RoutineFail
    \/ WeatherOk
    \/ WeatherFail
    \/ NewsOk
    \/ NewsFail
    \/ HistoryOk
    \/ HistoryFail

Spec == Init /\ [][Next]_vars

\* The chat card: message input, microphone, Send, and the history loader.
NextChat ==
    \/ TypeMessage
    \/ ClickSuggestion
    \/ ClickSend
    \/ PressEnter
    \/ ChatOk
    \/ ChatFail
    \/ ClickVoice
    \/ RecResult
    \/ RecError
    \/ RecEnd
    \/ HistoryOk
    \/ HistoryFail

SpecChat == Init /\ [][NextChat]_vars

\* The routine tab.
NextRoutine ==
    \/ EditRoutine
    \/ ClickSaveRoutine
    \/ RoutineOk
    \/ RoutineFail

SpecRoutine == Init /\ [][NextRoutine]_vars

\* The three loaders started on mount, racing with chat sends.
NextLoaders ==
    \/ ClickSuggestion
    \/ ClickSend
    \/ PressEnter
    \/ ChatOk
    \/ ChatFail
    \/ WeatherOk
    \/ WeatherFail
    \/ NewsOk
    \/ NewsFail
    \/ HistoryOk
    \/ HistoryFail

SpecLoaders == Init /\ [][NextLoaders]_vars

\* Every call that can fail, in one session: the loaders, the recogniser, and
\* one chat send and one routine save.
FirstSendClick == chatPosts = 0 /\ ClickSend

FirstSendEnter == chatPosts = 0 /\ PressEnter

FirstSave == routinePosts = 0 /\ ClickSaveRoutine

NextOnce ==
    \/ ClickSuggestion
    \/ FirstSendClick
    \/ FirstSendEnter
    \/ ChatOk
    \/ ChatFail
    \/ ClickVoice
    \/ RecResult
    \/ RecError
    \/ RecEnd
    \/ FirstSave
    \/ RoutineOk
    \/ RoutineFail
    \/ WeatherOk
    \/ WeatherFail
    \/ NewsOk
    \/ NewsFail
    \/ HistoryOk
    \/ HistoryFail

SpecOnce == Init /\ [][NextOnce]_vars

\* The chat card, the recogniser ending every recognition it started
\* (continuous = false: the platform fires onend after a result, an error or
\* a stop).
SpecChatFair == SpecChat /\ WF_vars(RecEnd)

\* ------------------------------------------------------------- properties
\* C1: at most one POST /chat and at most one POST /routine are unresolved
\* in every reachable state.
C1_AtMostOneInFlight ==
    /\ Cardinality(chatInFlight) <= 1
    /\ Cardinality(routineInFlight) <= 1

\* C2: every run of handleSendMessage on a non-blank text issues exactly one
\* POST /chat, no other step issues one (no retry), and a successful POST puts
\* the returned entry first in chatHistory, the entries held before following
\* it in their order.
C2_OnePostThenPrepend ==
    [][ /\ (lastOp' = "send" =>
              /\ trim(message) # <<>>
              /\ chatPosts' = chatPosts + 1
              /\ \E req \in chatInFlight' :
                    /\ req.message = message
                    /\ chatInFlight' \ {req} = chatInFlight
                    /\ req \notin chatInFlight)
        /\ (lastOp' # "send" =>
              /\ chatPosts' = chatPosts
              /\ chatInFlight' \subseteq chatInFlight)
        /\ (lastOp' = "chatOk" =>
              /\ chatHistory' # <<>>
              /\ Tail(chatHistory') = chatHistory
              /\ \E req \in chatInFlight \ chatInFlight' :
                    Head(chatHistory') =
                        [message |-> req.message, response |-> req.id])
      ]_vars

C2_Witness ==
    /\ lastOp = "chatOk"
    /\ Len(chatHistory) >= 2
    /\ chatHistory[1].response # 0

\* C3: a run of handleSendMessage on an empty or blank text issues no POST
\* /chat and leaves message, chatHistory and isLoading as they were.
C3_BlankSendsNothing ==
    [][ (trim(message) = <<>> /\ lastOp' \in {"send", "sendBlank"}) =>
            /\ lastOp' = "sendBlank"
            /\ UNCHANGED <<message, chatHistory, isLoading, chatInFlight,
                           chatPosts>>
      ]_vars

C3_Witness ==
    /\ lastOp = "sendBlank"
    /\ message = <<" ">>
    /\ chatHistory # <<>>

\* C4: when a POST /chat fails, chatHistory is the same after the failure is
\* handled as before, and an error notification is raised.
C4_FailKeepsHistory ==
    [][ lastOp' = "chatFail" =>
            /\ chatHistory' = chatHistory
            /\ toast' = "Failed to get recommendation. Please try again."
      ]_vars

C4_Witness ==
    /\ lastOp = "chatFail"
    /\ chatHistory # <<>>
    /\ toast = "Failed to get recommendation. Please try again."

\* C5: every run of handleRoutineSave issues exactly one POST /routine; the
\* form is reset to all-empty when the POST succeeds and only then; when it
\* fails the form is as before and an error notification is raised.
C5_ResetOnSuccessOnly ==
    [][ /\ (lastOp' = "saveRoutine" =>
              /\ routinePosts' = routinePosts + 1
              /\ Cardinality(routineInFlight') = Cardinality(routineInFlight) + 1
              /\ routine' = routine)
        /\ (lastOp' # "saveRoutine" =>
              /\ routinePosts' = routinePosts
              /\ routineInFlight' \subseteq routineInFlight)
        /\ (lastOp' = "routineOk" => routine' = EmptyRoutine)
        /\ (lastOp' = "routineFail" =>
              /\ routine' = routine
              /\ toast' = "Failed to save routine.")
        /\ ((routine' = EmptyRoutine /\ routine # EmptyRoutine) =>
              lastOp' \in {"routineOk", "editRoutine"})
      ]_vars

C5_Witness ==
    /\ lastOp = "routineFail"
    /\ routine # EmptyRoutine
    /\ toast = "Failed to save routine."

\* C6: with no speech recognition on the platform (recognitionRef.current is
\* null) every run of handleVoiceInput raises the error notification, no
\* method of a recogniser is called, and isListening stays false.
C6_UnsupportedVoice ==
    recognitionRef = Null =>
        /\ lastRecCall = "none"
        /\ recState = "idle"
        /\ ~isListening
        /\ lastOp \notin {"voiceStart", "voiceStop", "voiceStartThrew"}
        /\ (lastOp = "voiceUnsupported" =>
                toast = "Voice recognition not supported in this browser.")

C6_Witness ==
    /\ recognitionRef = Null
    /\ lastOp = "voiceUnsupported"
    /\ chatPosts > 0

\* C7: a failed weather or news fetch leaves its state at the initial empty
\* value, does not leave the loader as an exception, and changes nothing of
\* the other loaders.
C7_LoaderFailureContained ==
    /\ [](/\ (weatherReq = "failed" => weather = Null)
          /\ (newsReq = "failed" => news = <<>>)
          /\ uncaught = {})
    /\ [][ /\ (lastOp' = "weatherFail" =>
                 UNCHANGED <<weather, news, chatHistory, newsReq, historyReq>>)
           /\ (lastOp' = "newsFail" =>
                 UNCHANGED <<weather, news, chatHistory, weatherReq, historyReq>>)
         ]_vars

C7_Witness ==
    /\ weatherReq = "failed"
    /\ newsReq = "failed"
    /\ weather = Null
    /\ news = <<>>
    /\ historyReq = "done"
    /\ chatHistory # <<>>

\* C8 as stated: every failure (the three loaders, chat send, routine save,
\* recognition error) is caught, logged and raised as a notification.
Failures ==
    {"weatherFail", "newsFail", "historyFail", "chatFail", "routineFail",
     "recError"}

C8_AllLoggedAndNotified ==
    [][ lastOp' \in Failures =>
            /\ uncaught' = uncaught
            /\ log' # "none"
            /\ toast' # "none"
      ]_vars

\* C8 amended: every such failure is caught where the call is made; a failed
\* chat send or routine save is logged and notified, a failed loader is logged
\* and not notified, a recognition error is notified and not logged.
C8_CaughtLoggedOrNotified ==
    [][ /\ (lastOp' \in Failures => uncaught' = uncaught)
        /\ (lastOp' \in {"chatFail", "routineFail"} =>
              log' # "none" /\ toast' # "none")
        /\ (lastOp' \in {"weatherFail", "newsFail", "historyFail"} =>
              log' # "none" /\ toast' = "none")
        /\ (lastOp' = "recError" => log' = "none" /\ toast' # "none")
      ]_vars

C8_Witness ==
    /\ lastOp = "historyFail"
    /\ log = "Chat history loading error:"
    /\ toast = "none"
    /\ weatherReq = "failed"
    /\ newsReq = "failed"

\* C9: whenever a POST /chat is unresolved, isLoading is true.
C9_LoadingWhileOutstanding ==
    chatInFlight # {} => isLoading

\* C10: an entry received from a successful POST /chat and prepended to
\* chatHistory is in chatHistory in every later state.
C10_ReceivedEntryStays ==
    [][ \A i \in 1..Len(chatHistory) :
            chatHistory[i].response # 0 =>
                \E j \in 1..Len(chatHistory') : chatHistory'[j] = chatHistory[i]
      ]_vars

\* C11: voice input is a toggle that always returns to idle: handleVoiceInput
\* calls start and sets isListening only when isListening is false, calls stop
\* and clears isListening when it is true; every result, error and end event
\* clears isListening, a result also puts the transcript in message; and
\* listening always ends.
C11_VoiceToggle ==
    /\ [][ /\ (lastRecCall' = "start" /\ lastOp' \in {"voiceStart", "voiceStartThrew"}
                 => ~isListening)
           /\ ((isListening' /\ ~isListening) =>
                 /\ lastOp' = "voiceStart"
                 /\ lastRecCall' = "start"
                 /\ recState' = "active")
           /\ ((isListening /\ lastOp' \in
                    {"voiceStart", "voiceStop", "voiceStartThrew"}) =>
                 /\ lastOp' = "voiceStop"
                 /\ lastRecCall' = "stop"
                 /\ ~isListening')
           /\ (lastOp' = "voiceStop" => isListening)
           /\ (lastOp' \in {"recResult", "recError", "recEnd"} => ~isListening')
           /\ (lastOp' = "recResult" =>
                 /\ message' \in Messages \ {<<>>}
                 /\ UNCHANGED <<chatHistory, isLoading>>)
         ]_vars
    /\ (isListening ~> ~isListening)

C11_Witness ==
    /\ lastOp = "recResult"
    /\ lastRecCall = "stop"
    /\ ~isListening
    /\ message = <<" ", "a", " ">>
====
